---- MODULE Spec2Model ----
(***************************************************************************)
(* complete-deployer.js: a command-line script with two modes.  Without    *)
(* --quick it scaffolds a Hardhat project on disk, installs, compiles and  *)
(* deploys through subprocesses and runs a monitoring script; with --quick *)
(* it deploys directly through the ethers SDK.                             *)
(*                                                                         *)
(* One process run is modelled from main() to process exit.  A run ends in *)
(* pc = "exited"; the environment may then start the program again on the  *)
(* directory the previous run left behind (Restart).                       *)
(***************************************************************************)
EXTENDS Integers, Sequences, FiniteSets, TLC

VARIABLES
    argv,         \* process.argv.slice(2)
    envKey,       \* process.env.PRIVATE_KEY
    envRpc,       \* process.env.RPC_URL
    pc,           \* position of the main script
    cpc,          \* position inside the running child script (0: no child)
    self,         \* the CompleteDeployer instance (this)
    cwd,          \* process.cwd(): "start" or the project directory
    fs,           \* the file system under the starting directory
    freshFs,      \* the same scaffold steps applied to an empty directory
    local,        \* locals of the running SDK code (deployer, contract address)
    exitCode,     \* the code the process ends with (0 until process.exit sets one)
    failure,      \* what made the run fail ("none" while nothing failed)
    trace,        \* the effects of this run, in order
    runs,         \* number of process runs started so far
    prevWritten,  \* files the previous run wrote itself
    prevRpc,      \* RPC URL the previous run used
    prevKey       \* credential the previous run used

vars == <<argv, envKey, envRpc, pc, cpc, self, cwd, fs, freshFs, local,
          exitCode, failure, trace, runs, prevWritten, prevRpc, prevKey>>

(***************************************************************************)
(* Inputs                                                                  *)
(***************************************************************************)
MaxRuns == 2

Unset == "<unset>"
Placeholder == "YOUR_PRIVATE_KEY_HERE"
DefaultRpc == "https://sepolia.base.org"
ProjectName == "air-token-project"
QuickFlag == "--quick"

EnvKeys == {Unset, "", Placeholder, "not-a-key", "0xKEY_A", "0xKEY_B"}
EnvRpcs == {Unset, "", "https://rpc.example"}
Argvs == {<<>>, <<"--quick">>, <<"--quickly">>, <<"deploy", "--quick">>}

\* JavaScript truthiness of an environment variable's value
Truthy(v) == v # Unset /\ v # ""

\* a || b
OrDefault_nullish(v, d) == IF v = Unset THEN d ELSE v

OrDefault(v, d) == IF Truthy(v) THEN v ELSE d

\* args.includes(flag)
includes_first(args, flag) == Len(args) > 0 /\ args[1] = flag

includes(args, flag) == \E i \in 1..Len(args) : args[i] = flag

\* the address ethers derives from a private key
AddressOf(key) ==
    CASE key = "0xKEY_A" -> "0xADDR_A"
      [] key = "0xKEY_B" -> "0xADDR_B"
      [] OTHER -> "0xINVALID"

ValidKey(key) == key \in {"0xKEY_A", "0xKEY_B"}

\* the address of the contract a deployer's creation transaction makes
ContractOf(deployer) ==
    CASE deployer = "0xADDR_A" -> "0xCONTRACT_A"
      [] deployer = "0xADDR_B" -> "0xCONTRACT_B"
      [] OTHER -> "0xNONE"

\* new Date().toISOString() at the n-th run
toISOString(n) ==
    CASE n = 1 -> "2026-01-01T00:00:01.000Z"
      [] n = 2 -> "2026-01-01T00:00:02.000Z"
      [] n = 3 -> "2026-01-01T00:00:03.000Z"
      [] OTHER -> "2026-01-01T00:00:09.000Z"

(***************************************************************************)
(* File system                                                             *)
(***************************************************************************)
SubDirs == <<"contracts", "scripts", "artifacts", "cache">>

Dirs == {ProjectName, "contracts", "scripts", "artifacts", "cache", "node_modules"}

ScaffoldFiles == {"package.json", "hardhat.config.js", "contracts/AIR.sol",
                  "scripts/deploy.js", ".env.example", ".gitignore"}

ScriptFiles == ScaffoldFiles \cup {"monitor.js"}

InfoFile == "deployment-info.json"

Files == ScriptFiles \cup {InfoFile}

Paths == Dirs \cup Files

ScaffoldPaths == (Dirs \ {"node_modules"}) \cup ScaffoldFiles

Parent(p) ==
    CASE p = "contracts/AIR.sol" -> "contracts"
      [] p = "scripts/deploy.js" -> "scripts"
      [] OTHER -> ProjectName

Absent == [kind |-> "absent", data |-> <<>>]
Dir == [kind |-> "dir", data |-> <<>>]
File(d) == [kind |-> "file", data |-> d]

EmptyFs == [p \in Paths |-> Absent]

existsSync(f, p) == f[p].kind # "absent"

\* One effect of a run.  by: the script that made it.
Event(by, op, arg, ok, data) ==
    [by |-> by, op |-> op, arg |-> arg, ok |-> ok, data |-> data]

\* The state threaded through a synchronous block of statements: the file
\* system, the working directory, the pending exception ("" for none) and
\* the effects so far.
Ctx(f, d) == [fs |-> f, cwd |-> d, err |-> "", ev |-> <<>>]

Did(s, by, op, arg, err, data) ==
    [s EXCEPT !.err = err, !.ev = Append(s.ev, Event(by, op, arg, err = "", data))]

mkdirSync(s, p) ==
    IF s.err # "" THEN s
    ELSE IF existsSync(s.fs, p) THEN Did(s, "main", "mkdir", p, "EEXIST", <<>>)
    ELSE [Did(s, "main", "mkdir", p, "", <<>>) EXCEPT !.fs = [s.fs EXCEPT ![p] = Dir]]

chdir(s, p) ==
    IF s.err # "" THEN s
    ELSE IF s.fs[p].kind = "absent" THEN Did(s, "main", "chdir", p, "ENOENT", <<>>)
    ELSE IF s.fs[p].kind # "dir" THEN Did(s, "main", "chdir", p, "ENOTDIR", <<>>)
    ELSE [Did(s, "main", "chdir", p, "", <<>>) EXCEPT !.cwd = p]

writeFileSync(s, by, p, data) ==
    IF s.err # "" THEN s
    ELSE IF s.fs[Parent(p)].kind = "absent" THEN Did(s, by, "write", p, "ENOENT", data)
    ELSE IF s.fs[Parent(p)].kind # "dir" THEN Did(s, by, "write", p, "ENOTDIR", data)
    ELSE IF s.fs[p].kind = "dir" THEN Did(s, by, "write", p, "EISDIR", data)
    ELSE [Did(s, by, "write", p, "", data) EXCEPT !.fs = [s.fs EXCEPT ![p] = File(data)]]

StatusStr(status) == IF status = 0 THEN "0" ELSE "1"

\* execSync(command, ...) starting the child; the parent blocks until it ends
execStart(s, command) ==
    IF s.err # "" THEN s ELSE Did(s, "main", "spawn", command, "", <<>>)

\* runCommand(command): the child has ended with `status`; execSync throws on
\* a non-zero status and the catch rethrows it as "Command failed".
runCommand_swallow(s, command, status) ==
    IF s.err # "" THEN s
    ELSE Did(s, "main", "exit", command, "", <<StatusStr(status)>>)

runCommand(s, command, status) ==
    IF s.err # "" THEN s
    ELSE Did(s, "main", "exit", command,
             IF status # 0 THEN "Command failed" ELSE "", <<StatusStr(status)>>)

\* what a successful npm install leaves on disk
npmInstalled(s) ==
    IF s.err # "" THEN s ELSE [s EXCEPT !.fs = [s.fs EXCEPT !["node_modules"] = Dir]]

(***************************************************************************)
(* File templates                                                          *)
(***************************************************************************)
packageJson == <<"{name: air-token-project, version: 1.0.0, scripts, devDependencies}">>

hardhatConfig_leak(this) ==
    <<"hardhat.config.js: solidity 0.8.20, baseSepolia url:", this.rpcUrl,
      "chainId 84532, accounts:", this.privateKey>>

hardhatConfig(this) ==
    <<"hardhat.config.js: solidity 0.8.20, baseSepolia url:", this.rpcUrl,
      "chainId 84532, accounts: process.env.PRIVATE_KEY ? [process.env.PRIVATE_KEY] : []">>

airContract == <<"contract AIR is ERC20, Ownable">>

deployScript == <<"scripts/deploy.js: main().catch(exit 1)">>

envTemplate(this) == <<"PRIVATE_KEY=your_private_key_here", "RPC_URL=", this.rpcUrl>>

gitignore == <<"node_modules/", ".env", "deployment-info.json", "artifacts/", "cache/">>

monitorScript(this) ==
    <<"monitor.js: provider", this.rpcUrl, "try { name() } catch { log }">>

\* JSON.stringify(deploymentInfo, null, 2) in the deployment script
NetworkLabel == "base-sepolia"

deploymentInfo(address, deployer, now) ==
    <<"address", address, "deployer", deployer,
      "network", NetworkLabel, "timestamp", toISOString(now)>>

\* require("./deployment-info.json"): the parsed record, when the file holds one
IsInfoRecord(e) ==
    /\ e.kind = "file"
    /\ Len(e.data) = 8
    /\ e.data[1] = "address" /\ e.data[3] = "deployer"
    /\ e.data[5] = "network" /\ e.data[7] = "timestamp"

(***************************************************************************)
(* CompleteDeployer                                                        *)
(***************************************************************************)
NoDeployer == [projectName |-> "", privateKey |-> "", rpcUrl |-> ""]

Constructor(key, rpc) ==
    [projectName |-> ProjectName,
     privateKey |-> OrDefault(key, Placeholder),
     rpcUrl |-> OrDefault(rpc, DefaultRpc)]

\* the five steps of run(), in the order run() awaits them
RunSequence_monitorFirst ==
    <<"createProjectStructure", "installDependencies", "createConfigFiles",
      "startMonitoring", "deployContract">>

RunSequence ==
    <<"createProjectStructure", "installDependencies", "createConfigFiles",
      "deployContract", "startMonitoring">>

IndexOf(seq, x) == CHOOSE i \in 1..Len(seq) : seq[i] = x

StepAfter(step) ==
    LET i == IndexOf(RunSequence, step)
    IN IF i = Len(RunSequence) THEN "complete" ELSE RunSequence[i + 1]

RunCatchExitCode == 1

\* the code a process ends with when nothing calls process.exit
DefaultExitCode == 0

QuickNoKeyExitCode == 1

\* if (!fs.existsSync(p)) fs.mkdirSync(p)
NeedsMkdir_always(f, p) == TRUE

NeedsMkdir(f, p) == ~existsSync(f, p)

RECURSIVE mkdirEach(_, _, _)
mkdirEach(s, dirs, i) ==
    IF i > Len(dirs) THEN s
    ELSE mkdirEach(IF s.err = "" /\ NeedsMkdir(s.fs, dirs[i])
                   THEN mkdirSync(s, dirs[i]) ELSE s,
                   dirs, i + 1)

createProjectStructure(s, this) ==
    LET s1 == IF NeedsMkdir(s.fs, this.projectName)
              THEN mkdirSync(s, this.projectName) ELSE s
        s2 == chdir(s1, this.projectName)
    IN mkdirEach(s2, SubDirs, 1)

installDependencies(s, this, status) ==
    LET s1 == writeFileSync(s, "main", "package.json", packageJson)
        s2 == runCommand(execStart(s1, "npm install"), "npm install", status)
    IN IF status = 0 THEN npmInstalled(s2) ELSE s2

createConfigFiles(s, this) ==
    LET s1 == writeFileSync(s, "main", "hardhat.config.js", hardhatConfig(this))
        s2 == writeFileSync(s1, "main", "contracts/AIR.sol", airContract)
        s3 == writeFileSync(s2, "main", "scripts/deploy.js", deployScript)
        s4 == writeFileSync(s3, "main", ".env.example", envTemplate(this))
    IN writeFileSync(s4, "main", ".gitignore", gitignore)

\* the check at the head of deployContract
credentialMissing_never(env, this) == FALSE

credentialMissing(env, this) == ~Truthy(env) /\ this.privateKey = Placeholder

CompileCmd == "npx hardhat compile"
DeployCmd == "npx hardhat run scripts/deploy.js --network baseSepolia"
MonitorCmd == "node monitor.js"

\* scripts/deploy.js, statement by statement
DeployScriptSteps_writeFirst ==
    <<"getSigners", "getBalance", "getContractFactory", "writeInfo", "deploy",
      "waitForDeployment", "getAddress", "name", "symbol", "totalSupply">>

DeployScriptSteps ==
    <<"getSigners", "getBalance", "getContractFactory", "deploy",
      "waitForDeployment", "getAddress", "name", "symbol", "totalSupply",
      "writeInfo">>

\* main().catch(error => process.exit(1)) at the foot of scripts/deploy.js
deployScriptExit(threw) == IF threw THEN 1 ELSE 0

\* monitor.js, statement by statement
MonitorSteps == <<"requireInfo", "name">>

\* monitor(): the catch inside it logs and returns
monitorExit_rethrow(threw) == IF threw THEN 1 ELSE 0

monitorExit(threw) == 0

NoLocal == [deployer |-> "", address |-> "", submitted |-> FALSE, confirmed |-> FALSE]

NothingWritten == [p \in ScriptFiles |-> <<>>]

\* the contents the main script wrote, per file, in the effects `tr`
WrittenBy(tr) ==
    [p \in ScriptFiles |->
        LET W == {i \in 1..Len(tr) : tr[i].by = "main" /\ tr[i].op = "write"
                                       /\ tr[i].arg = p /\ tr[i].ok}
        IN IF W = {} THEN <<>> ELSE tr[CHOOSE i \in W : \A j \in W : j <= i].data]

ErrClass(err) ==
    CASE err = "Command failed" -> "subprocess"
      [] err = "credential" -> "credential"
      [] OTHER -> "fs"

LogComplete == Event("main", "log", "DEPLOYMENT COMPLETE", TRUE, <<>>)

(***************************************************************************)
(* Initial state                                                           *)
(***************************************************************************)
StaleData == <<"edited by hand">>

InitialFs ==
    { EmptyFs,
      [EmptyFs EXCEPT ![ProjectName] = File(StaleData)],
      [EmptyFs EXCEPT ![ProjectName] = Dir, !["contracts"] = File(StaleData)],
      [EmptyFs EXCEPT ![ProjectName] = Dir, !["contracts"] = Dir,
                      !["package.json"] = File(StaleData),
                      !["hardhat.config.js"] = File(StaleData),
                      !["contracts/AIR.sol"] = File(StaleData)] }

Init ==
    /\ argv \in Argvs
    /\ envKey \in EnvKeys
    /\ envRpc \in EnvRpcs
    /\ fs \in InitialFs
    /\ pc = "main"
    /\ cpc = 0
    /\ self = NoDeployer
    /\ cwd = "start"
    /\ freshFs = EmptyFs
    /\ local = NoLocal
    /\ exitCode = DefaultExitCode
    /\ failure = "none"
    /\ trace = <<>>
    /\ runs = 1
    /\ prevWritten = NothingWritten
    /\ prevRpc = ""
    /\ prevKey = ""

(***************************************************************************)
(* Control flow shared by the actions                                      *)
(***************************************************************************)
inputs == <<argv, envKey, envRpc>>
history == <<runs, prevWritten, prevRpc, prevKey>>

ToExit(code, fail) ==
    /\ pc' = "exited"
    /\ cpc' = 0
    /\ exitCode' = code
    /\ failure' = fail

Continue(p, c) ==
    /\ pc' = p
    /\ cpc' = c
    /\ UNCHANGED <<exitCode, failure>>

\* A step of run() has ended in context s: an exception reaches run()'s catch
\* (process.exit(1)); otherwise run() goes on to its next await, or logs
\* completion and returns, after which main() resolves and the process ends.
RunStep(s, step) ==
    /\ fs' = s.fs
    /\ cwd' = s.cwd
    /\ IF s.err # ""
       THEN trace' = trace \o s.ev /\ ToExit(RunCatchExitCode, ErrClass(s.err))
       ELSE IF StepAfter(step) = "complete"
       THEN trace' = trace \o s.ev \o <<LogComplete>> /\ ToExit(DefaultExitCode, "none")
       ELSE trace' = trace \o s.ev /\ Continue(StepAfter(step), 0)

\* main().catch(console.error): a rejection of main() is logged and the
\* process ends when the event loop drains
MainCatch(fail) == ToExit(DefaultExitCode, fail)

(***************************************************************************)
(* main                                                                    *)
(***************************************************************************)
Main ==
    /\ pc = "main"
    /\ IF includes(argv, QuickFlag)
       THEN /\ self' = NoDeployer
            /\ Continue("quickDeploy", 0)
       ELSE /\ self' = Constructor(envKey, envRpc)
            /\ Continue(RunSequence[1], 0)
    /\ UNCHANGED <<inputs, history, cwd, fs, freshFs, local, trace>>

(***************************************************************************)
(* Scaffold-and-deploy mode                                                *)
(***************************************************************************)
CreateProjectStructure ==
    /\ pc = "createProjectStructure"
    /\ RunStep(createProjectStructure(Ctx(fs, cwd), self), "createProjectStructure")
    /\ freshFs' = createProjectStructure(Ctx(freshFs, "start"), self).fs
    /\ UNCHANGED <<inputs, history, self, local>>

InstallDependencies ==
    /\ pc = "installDependencies"
    /\ \E status \in {0, 1} :
        /\ RunStep(installDependencies(Ctx(fs, cwd), self, status), "installDependencies")
        /\ freshFs' = installDependencies(Ctx(freshFs, cwd), self, status).fs
    /\ UNCHANGED <<inputs, history, self, local>>

CreateConfigFiles ==
    /\ pc = "createConfigFiles"
    /\ RunStep(createConfigFiles(Ctx(fs, cwd), self), "createConfigFiles")
    /\ freshFs' = createConfigFiles(Ctx(freshFs, cwd), self).fs
    /\ UNCHANGED <<inputs, history, self, local>>

\* deployContract up to the start of the deployment command
DeployContract ==
    /\ pc = "deployContract"
    /\ IF credentialMissing(envKey, self)
       THEN RunStep(Did(Ctx(fs, cwd), "main", "throw", "Please set PRIVATE_KEY",
                        "credential", <<>>),
                    "deployContract")
       ELSE \E status \in {0, 1} :
            LET s == runCommand(execStart(Ctx(fs, cwd), CompileCmd), CompileCmd, status)
            IN IF s.err # ""
               THEN RunStep(s, "deployContract")
               ELSE /\ trace' = trace \o execStart(s, DeployCmd).ev
                    /\ Continue("deploy.js", 1)
                    /\ UNCHANGED <<fs, cwd>>
    /\ UNCHANGED <<inputs, history, self, freshFs, local>>

\* The deployment command has ended: deployContract returns or throws
DeployEnded(s, threw) ==
    RunStep(runCommand(s, DeployCmd, deployScriptExit(threw)), "deployContract")

\* one statement of scripts/deploy.js, run by hardhat as the child process
DeployScriptStep ==
    /\ pc = "deploy.js"
    /\ LET step == DeployScriptSteps[cpc]
           last == cpc = Len(DeployScriptSteps)
           s0 == Ctx(fs, cwd)
       IN IF step = "writeInfo"
          THEN LET s == writeFileSync(s0, "deploy.js", InfoFile,
                                      deploymentInfo(local.address, local.deployer, runs))
               IN /\ local' = local
                  /\ IF s.err # "" \/ last
                     THEN DeployEnded([s EXCEPT !.err = ""], s.err # "")
                     ELSE /\ fs' = s.fs
                          /\ trace' = trace \o s.ev
                          /\ Continue("deploy.js", cpc + 1)
                          /\ UNCHANGED cwd
          ELSE \E ok \in BOOLEAN :
               /\ (step = "getSigners" /\ ok) => ValidKey(envKey)
               /\ (step = "getAddress") => ok
               /\ local' = IF ~ok THEN local
                           ELSE CASE step = "getSigners" -> [local EXCEPT !.deployer = AddressOf(envKey)]
                                  [] step = "deploy" -> [local EXCEPT !.submitted = TRUE]
                                  [] step = "waitForDeployment" -> [local EXCEPT !.confirmed = TRUE]
                                  [] step = "getAddress" -> [local EXCEPT !.address = ContractOf(local.deployer)]
                                  [] OTHER -> local
               /\ LET e == [s0 EXCEPT !.ev = <<Event("deploy.js", "rpc", step, ok, <<>>)>>]
                  IN IF ~ok \/ last
                     THEN DeployEnded(e, ~ok)
                     ELSE /\ trace' = trace \o e.ev
                          /\ Continue("deploy.js", cpc + 1)
                          /\ UNCHANGED <<fs, cwd>>
    /\ UNCHANGED <<inputs, history, self, freshFs>>

\* startMonitoring up to the start of the monitoring command
StartMonitoring ==
    /\ pc = "startMonitoring"
    /\ LET s == writeFileSync(Ctx(fs, cwd), "main", "monitor.js", monitorScript(self))
       IN IF s.err # ""
          THEN RunStep(s, "startMonitoring")
          ELSE /\ fs' = s.fs
               /\ trace' = trace \o execStart(s, MonitorCmd).ev
               /\ Continue("monitor.js", 1)
               /\ UNCHANGED cwd
    /\ UNCHANGED <<inputs, history, self, freshFs, local>>

\* one statement of monitor.js inside its try block
MonitorStep ==
    /\ pc = "monitor.js"
    /\ LET step == MonitorSteps[cpc]
           last == cpc = Len(MonitorSteps)
       IN \E ok \in BOOLEAN :
          /\ (step = "requireInfo") => (ok <=> IsInfoRecord(fs[InfoFile]))
          /\ LET op == IF step = "requireInfo" THEN "read" ELSE "rpc"
                 arg == IF step = "requireInfo" THEN InfoFile ELSE step
                 ev == <<Event("monitor.js", op, arg, ok, <<>>)>>
                 caught == <<Event("monitor.js", "catch", "Monitoring error", TRUE, <<>>)>>
             IN IF ~ok \/ last
                THEN RunStep(runCommand([Ctx(fs, cwd) EXCEPT
                                            !.ev = IF ok THEN ev ELSE ev \o caught],
                                        MonitorCmd, monitorExit(~ok)),
                             "startMonitoring")
                ELSE /\ trace' = trace \o ev
                     /\ Continue("monitor.js", cpc + 1)
                     /\ UNCHANGED <<fs, cwd>>
    /\ UNCHANGED <<inputs, history, self, freshFs, local>>

(***************************************************************************)
(* Quick mode                                                              *)
(***************************************************************************)
QuickEvent(op, arg, ok) == Event("quick", op, arg, ok, <<>>)

\* quickDeploy up to the first await: provider, credential check, wallet
\* (the SDK's Wallet constructor throws on a key that is not one)
QuickDeployStart ==
    /\ pc = "quickDeploy"
    /\ LET privateKey == OrDefault(envKey, Placeholder)
           provider == QuickEvent("new", "JsonRpcProvider", TRUE)
       IN IF privateKey = Placeholder
          THEN /\ trace' = trace \o <<provider, QuickEvent("log", "Please set PRIVATE_KEY", TRUE)>>
               /\ ToExit(QuickNoKeyExitCode, "credential")
               /\ local' = local
          ELSE IF ~ValidKey(privateKey)
          THEN /\ trace' = trace \o <<provider, QuickEvent("new", "Wallet", FALSE)>>
               /\ MainCatch("sdk")
               /\ local' = local
          ELSE /\ trace' = trace \o <<provider, QuickEvent("new", "Wallet", TRUE)>>
               /\ local' = [local EXCEPT !.deployer = AddressOf(privateKey)]
               /\ Continue("quick:getBalance", 0)
    /\ UNCHANGED <<inputs, history, self, cwd, fs, freshFs>>

QuickGetBalance ==
    /\ pc = "quick:getBalance"
    /\ \E ok \in BOOLEAN :
        /\ trace' = Append(trace, QuickEvent("rpc", "getBalance", ok))
        /\ IF ok THEN Continue("quick:deploy", 0) ELSE MainCatch("rpc")
    /\ UNCHANGED <<inputs, history, self, cwd, fs, freshFs, local>>

\* new ContractFactory(abi, bytecode, wallet) and factory.deploy().  The
\* bytecode literal is handed to the SDK as it stands; whether the SDK's
\* constructor accepts it is the SDK's decision (built).
QuickFactoryDeploy ==
    /\ pc = "quick:deploy"
    /\ \E built \in BOOLEAN, ok \in BOOLEAN :
        IF ~built
        THEN /\ trace' = Append(trace, QuickEvent("new", "ContractFactory", FALSE))
             /\ MainCatch("sdk")
             /\ local' = local
        ELSE /\ trace' = trace \o <<QuickEvent("new", "ContractFactory", TRUE),
                                     QuickEvent("rpc", "deploy", ok)>>
             /\ IF ok
                THEN /\ local' = [local EXCEPT !.submitted = TRUE]
                     /\ Continue("quick:waitForDeployment", 0)
                ELSE /\ local' = local
                     /\ MainCatch("rpc")
    /\ UNCHANGED <<inputs, history, self, cwd, fs, freshFs>>

QuickWaitForDeployment ==
    /\ pc = "quick:waitForDeployment"
    /\ \E ok \in BOOLEAN :
        /\ trace' = Append(trace, QuickEvent("rpc", "waitForDeployment", ok))
        /\ IF ok
           THEN /\ local' = [local EXCEPT !.confirmed = TRUE]
                /\ Continue("quick:report", 0)
           ELSE /\ local' = local
                /\ MainCatch("rpc")
    /\ UNCHANGED <<inputs, history, self, cwd, fs, freshFs>>

\* the address and the transaction hash are printed; quickDeploy returns
QuickReport ==
    /\ pc = "quick:report"
    /\ local' = [local EXCEPT !.address = ContractOf(local.deployer)]
    /\ trace' = Append(trace, QuickEvent("log", "Contract deployed to", TRUE))
    /\ ToExit(DefaultExitCode, "none")
    /\ UNCHANGED <<inputs, history, self, cwd, fs, freshFs>>

(***************************************************************************)
(* The program is started again on what the last run left on disk          *)
(***************************************************************************)
Restart ==
    /\ pc = "exited"
    /\ runs < MaxRuns
    /\ argv' \in Argvs
    /\ envKey' \in EnvKeys
    /\ envRpc' \in EnvRpcs
    /\ runs' = runs + 1
    /\ prevWritten' = WrittenBy(trace)
    /\ prevRpc' = self.rpcUrl
    /\ prevKey' = self.privateKey
    /\ pc' = "main"
    /\ cpc' = 0
    /\ self' = NoDeployer
    /\ cwd' = "start"
    /\ freshFs' = EmptyFs
    /\ local' = NoLocal
    /\ exitCode' = DefaultExitCode
    /\ failure' = "none"
    /\ trace' = <<>>
    /\ UNCHANGED fs

Next ==
    \/ Main
    \/ CreateProjectStructure
    \/ InstallDependencies
    \/ CreateConfigFiles
    \/ DeployContract
    \/ DeployScriptStep
    \/ StartMonitoring
    \/ MonitorStep
    \/ QuickDeployStart
    \/ QuickGetBalance
    \/ QuickFactoryDeploy
    \/ QuickWaitForDeployment
    \/ QuickReport
    \/ Restart

Spec == Init /\ [][Next]_vars

(***************************************************************************)
(* Vocabulary of the properties                                            *)
(***************************************************************************)
FlagPresent == \E i \in DOMAIN argv : argv[i] = "--quick"

ScaffoldMode == self # NoDeployer

Exited == pc = "exited"

Has(op, arg, ok) ==
    \E i \in DOMAIN trace : trace[i].op = op /\ trace[i].arg = arg /\ trace[i].ok = ok

Spawned(cmd) == Has("spawn", cmd, TRUE)

IsCommandFailure(e) == e.by = "main" /\ e.op = "exit" /\ e.data = <<"1">>

\* C1: in scaffold-and-deploy mode a subprocess that returned non-zero is the
\* last effect of the run: the process has exited with a non-zero code and
\* nothing (no file write, no subprocess) follows it.
C1_CommandFailureStops ==
    \A i \in DOMAIN trace :
        IsCommandFailure(trace[i]) =>
            /\ i = Len(trace)
            /\ Exited
            /\ exitCode # 0

C1_Witness ==
    /\ Exited
    /\ Len(trace) > 0
    /\ IsCommandFailure(trace[Len(trace)])
    /\ trace[Len(trace)].arg = CompileCmd

\* C2: in quick mode with PRIVATE_KEY unset, empty or the placeholder, the
\* run never gets past the credential check: no RPC call is made and the
\* process exits with a non-zero code.
C2_QuickRefusesWithoutKey ==
    (FlagPresent /\ envKey \in {Unset, "", Placeholder}) =>
        /\ \A i \in DOMAIN trace : trace[i].op # "rpc"
        /\ ~local.submitted
        /\ pc \in {"main", "quickDeploy", "exited"}
        /\ Exited => exitCode # 0

C2_Witness ==
    /\ FlagPresent
    /\ envKey = ""
    /\ Exited
    /\ Has("log", "Please set PRIVATE_KEY", TRUE)

\* C3: every failure of a run (file-system error, subprocess failure, missing
\* credential, RPC failure) ends the process with a non-zero exit code.
C3_FailureExitsNonZero ==
    (Exited /\ failure \in {"fs", "subprocess", "credential", "rpc"}) => exitCode # 0

\* C4: when the monitoring script catches an error of its confirmation read,
\* compile and deploy have succeeded, and the run ends with the completion
\* message and exit code 0.
MonitorCaught == Has("catch", "Monitoring error", TRUE)

C4_MonitorErrorIsNotFatal ==
    MonitorCaught =>
        /\ Has("exit", CompileCmd, TRUE)
        /\ Has("exit", DeployCmd, TRUE)
        /\ Exited
        /\ exitCode = 0
        /\ trace[Len(trace)] = LogComplete

C4_Witness ==
    /\ MonitorCaught
    /\ Has("rpc", "name", FALSE)
    /\ Exited

\* C5: with --quick among the arguments every effect of the run is quick
\* mode's and no deployer is constructed; without it no effect is quick
\* mode's (no wallet, no contract factory, no SDK deployment).
C5_ModesExclusive ==
    /\ FlagPresent =>
        /\ \A i \in DOMAIN trace : trace[i].by = "quick"
        /\ ~ScaffoldMode
        /\ cwd = "start"
    /\ ~FlagPresent =>
        /\ \A i \in DOMAIN trace : trace[i].by # "quick"
        /\ ~local.submitted \/ Spawned(DeployCmd)

C5_Witness ==
    /\ argv = <<"deploy", "--quick">>
    /\ local.submitted
    /\ Exited

\* C6: the main script's effects follow one fixed order, none twice, none
\* skipped except a mkdir of a directory that exists, each completed before
\* the next starts; the child scripts run only inside their command.
StepOrder ==
    << <<"mkdir", ProjectName>>, <<"chdir", ProjectName>>,
       <<"mkdir", "contracts">>, <<"mkdir", "scripts">>,
       <<"mkdir", "artifacts">>, <<"mkdir", "cache">>,
       <<"write", "package.json">>,
       <<"spawn", "npm install">>, <<"exit", "npm install">>,
       <<"write", "hardhat.config.js">>, <<"write", "contracts/AIR.sol">>,
       <<"write", "scripts/deploy.js">>, <<"write", ".env.example">>,
       <<"write", ".gitignore">>,
       <<"spawn", CompileCmd>>, <<"exit", CompileCmd>>,
       <<"spawn", DeployCmd>>, <<"exit", DeployCmd>>,
       <<"write", "monitor.js">>,
       <<"spawn", MonitorCmd>>, <<"exit", MonitorCmd>>,
       <<"log", "DEPLOYMENT COMPLETE">> >>

IsMainStep(e) == e.by = "main" /\ e.op # "throw"

MainSteps == SelectSeq(trace, IsMainStep)

InOrder(e) == \E k \in DOMAIN StepOrder : StepOrder[k] = <<e.op, e.arg>>

Pos(e) == CHOOSE k \in DOMAIN StepOrder : StepOrder[k] = <<e.op, e.arg>>

RunningCommand(i) ==
    LET S == {j \in 1..(i - 1) : trace[j].by = "main" /\ trace[j].op \in {"spawn", "exit"}}
    IN IF S = {} THEN ""
       ELSE LET j == CHOOSE j \in S : \A k \in S : k <= j
            IN IF trace[j].op = "spawn" THEN trace[j].arg ELSE ""

C6_FixedOrder ==
    ScaffoldMode =>
        /\ \A i \in DOMAIN MainSteps :
            /\ InOrder(MainSteps[i])
            /\ i < Len(MainSteps) =>
                /\ MainSteps[i].ok
                /\ InOrder(MainSteps[i + 1])
                /\ Pos(MainSteps[i]) < Pos(MainSteps[i + 1])
                /\ \A k \in (Pos(MainSteps[i]) + 1)..(Pos(MainSteps[i + 1]) - 1) :
                      StepOrder[k][1] = "mkdir"
            /\ i = 1 => \A k \in 1..(Pos(MainSteps[1]) - 1) : StepOrder[k][1] = "mkdir"
        /\ \A i \in DOMAIN trace :
            /\ trace[i].by = "deploy.js" => RunningCommand(i) = DeployCmd
            /\ trace[i].by = "monitor.js" => RunningCommand(i) = MonitorCmd
            /\ (trace[i].by = "main" /\ trace[i].op # "exit") => RunningCommand(i) = ""

C6_Witness ==
    /\ ScaffoldMode
    /\ Exited
    /\ Len(MainSteps) = Len(StepOrder)
    /\ Has("rpc", "name", TRUE)

\* C7: on a directory where the project directory, subdirectories or
\* generated files already exist (each of its proper kind) the scaffold
\* steps raise no file-system error, and once they are done the directories
\* and file contents are those the same steps leave on an empty directory.
WellKinded(f) ==
    /\ \A p \in Dirs : f[p].kind \in {"absent", "dir"}
    /\ \A p \in Files : f[p].kind \in {"absent", "file"}

ScaffoldDone == Has("write", ".gitignore", TRUE)

C7_ScaffoldIdempotent ==
    (ScaffoldMode /\ WellKinded(fs)) =>
        /\ failure # "fs"
        /\ ScaffoldDone => \A p \in ScaffoldPaths : fs[p] = freshFs[p]

C7_Witness ==
    /\ runs = 2
    /\ ScaffoldDone
    /\ WellKinded(fs)
    /\ \A i \in DOMAIN trace : trace[i].op # "mkdir"
    /\ prevWritten["hardhat.config.js"] # <<>>
    /\ prevRpc # self.rpcUrl

\* C8: deployment-info.json is written only after the creation transaction
\* was submitted and waitForDeployment completed, never in a run whose
\* deployment script failed, and holds the contract address, the deployer
\* address, the label base-sepolia and a timestamp.
InfoWrites == {i \in DOMAIN trace : trace[i].op = "write" /\ trace[i].arg = InfoFile}

C8_InfoAfterDeployment ==
    /\ \A i \in InfoWrites :
        /\ trace[i].by = "deploy.js"
        /\ \E j \in 1..(i - 1) : \E k \in (j + 1)..(i - 1) :
              /\ trace[j] = Event("deploy.js", "rpc", "deploy", TRUE, <<>>)
              /\ trace[k] = Event("deploy.js", "rpc", "waitForDeployment", TRUE, <<>>)
        /\ \A j \in DOMAIN trace : trace[j].by = "deploy.js" => trace[j].ok
        /\ trace[i].ok => fs[InfoFile] = File(trace[i].data)
    /\ fs[InfoFile].kind = "file" =>
        /\ IsInfoRecord(fs[InfoFile])
        /\ fs[InfoFile].data[2] \in {"0xCONTRACT_A", "0xCONTRACT_B"}
        /\ fs[InfoFile].data[4] \in {"0xADDR_A", "0xADDR_B"}
        /\ fs[InfoFile].data[2] = ContractOf(fs[InfoFile].data[4])
        /\ fs[InfoFile].data[6] = "base-sepolia"
        /\ \E n \in 1..runs : fs[InfoFile].data[8] = toISOString(n)

C8_Witness ==
    /\ InfoWrites # {}
    /\ fs[InfoFile].kind = "file"
    /\ envKey = "0xKEY_B"
    /\ fs[InfoFile].data[4] = "0xADDR_B"

\* C9: what the main script writes depends on the RPC URL alone: a file
\* written in this run and in the previous one with the same RPC URL has the
\* same contents whatever the credentials were, and no written file holds
\* the credential's value.
C9_TemplatesIgnoreCredential ==
    ScaffoldMode =>
        /\ \A i \in DOMAIN trace :
            (trace[i].by = "main" /\ trace[i].op = "write") =>
                \A k \in DOMAIN trace[i].data :
                    /\ trace[i].data[k] # self.privateKey
                    /\ trace[i].data[k] # envKey
        /\ prevRpc = self.rpcUrl =>
            \A p \in ScriptFiles :
                (WrittenBy(trace)[p] # <<>> /\ prevWritten[p] # <<>>) =>
                    WrittenBy(trace)[p] = prevWritten[p]

C9_Witness ==
    /\ ScaffoldMode
    /\ prevRpc = self.rpcUrl
    /\ prevKey # self.privateKey
    /\ prevKey # Placeholder
    /\ self.privateKey # Placeholder
    /\ \A p \in ScriptFiles : WrittenBy(trace)[p] # <<>> /\ prevWritten[p] # <<>>

\* C10 as claimed: in scaffold mode with this.privateKey equal to the
\* placeholder, no compile, deploy or monitoring command is started and the
\* run exits with code 1.
NoToolchainRun ==
    /\ ~Spawned(CompileCmd)
    /\ ~Spawned(DeployCmd)
    /\ ~Spawned(MonitorCmd)
    /\ Exited => exitCode = 1

C10_PlaceholderStopsDeploy ==
    (ScaffoldMode /\ self.privateKey = Placeholder) => NoToolchainRun

\* C10 as amended: in scaffold mode with PRIVATE_KEY unset or empty, no
\* compile, deploy or monitoring command is started and the run exits with
\* code 1; when deployContract refuses, the project directory, the installed
\* dependencies and the template files are in place.
ScaffoldInPlace ==
    /\ \A p \in Dirs : fs[p] = Dir
    /\ fs["package.json"] = File(packageJson)
    /\ fs["hardhat.config.js"] = File(hardhatConfig(self))
    /\ fs["contracts/AIR.sol"] = File(airContract)
    /\ fs["scripts/deploy.js"] = File(deployScript)
    /\ fs[".env.example"] = File(envTemplate(self))
    /\ fs[".gitignore"] = File(gitignore)

C10_UnsetKeyStopsDeploy ==
    (ScaffoldMode /\ envKey \in {Unset, ""}) =>
        /\ NoToolchainRun
        /\ failure = "credential" => ScaffoldInPlace

C10_Witness ==
    /\ ScaffoldMode
    /\ envKey = ""
    /\ failure = "credential"
    /\ Exited

====
